---- MODULE Spec2Model ----
(***************************************************************************)
(* Verification model of examples/geolifeclef/cnn_on_temperature_patches.py *)
(*                                                                         *)
(* Four components of the script are modelled, each with its own           *)
(* specification over the shared variable tuple:                           *)
(*   SpecPipeline  train_transform / test_transform applied twice to one   *)
(*                 input (tensor shapes and the geometric operations)      *)
(*   SpecPatch     the subtract-mean / divide-by-scale arithmetic of       *)
(*                 ReplaceChannelsByBIOTEMPTransform on cell values        *)
(*   SpecData      GeoLifeCLEF2022DataModule.__init__ and get_dataset      *)
(*   SpecMain      the call chain of main                                  *)
(***************************************************************************)
EXTENDS Integers, Sequences, FiniteSets, TLC

VARIABLES
    \* ---- transform pipelines ----
    x,          \* shape <<C, H, W>> of the input array
    app,        \* index in Applications of the Compose call in progress
    stage,      \* index in the Compose list of the next transform to apply
    cur,        \* the value flowing through Compose.__call__
    outs,       \* results of the finished applications, in order
    \* ---- cell arithmetic ----
    mode,       \* "roundtrip", "extract" or "off"
    phase,      \* position in the flow
    orig,       \* per channel: the value x the round trip starts from
    raw,        \* per channel: raster cell read at one location (or NaN)
    patch,      \* per channel: cell handed to the transform
    normed,     \* per channel: cell after (data - mu) / sigma
    \* ---- data module ----
    modules,    \* constructed GeoLifeCLEF2022DataModule objects
    extractors, \* every PatchExtractor object constructed so far
    datasets,   \* every dataset constructor call made by get_dataset
    \* ---- main ----
    pc,         \* next statement of main
    cfg,        \* the configuration handed to main
    trace,      \* statements of main that have completed, in order
    env,        \* local variables of main (object identities)
    calls,      \* arguments of the trainer.fit / trainer.test calls
    epoch,      \* epochs run so far inside trainer.fit
    raised      \* the exception that left main, or NoException

pipeVars  == <<x, app, stage, cur, outs>>
patchVars == <<mode, phase, orig, raw, patch, normed>>
dataVars  == <<modules, extractors, datasets>>
mainVars  == <<pc, cfg, trace, env, calls, epoch, raised>>
vars      == <<pipeVars, patchVars, dataVars, mainVars>>

Min(a, b) == IF a <= b THEN a ELSE b
Last(s)   == s[Len(s)]

(***************************************************************************)
(* Bounds                                                                  *)
(***************************************************************************)
MaxChannels == 4    \* input channel counts 1..MaxChannels
MaxDim      == 3    \* input heights and widths 1..MaxDim
MaxOffset   == 1    \* random crop offsets sampled from 0..MaxOffset

(***************************************************************************)
(* Quiescent values of the components a specification does not exercise    *)
(***************************************************************************)
NoTensor    == [status |-> "none", shape |-> <<>>, ops |-> <<>>, err |-> "none"]
NoException == "NoException"

PipeIdle ==
    /\ x = <<>> /\ app = 0 /\ stage = 0
    /\ cur = NoTensor /\ outs = <<>>
PatchIdle ==
    /\ mode = "off" /\ phase = "off"
    /\ orig = <<>> /\ raw = <<>> /\ patch = <<>> /\ normed = <<>>
DataIdle ==
    /\ modules = <<>> /\ extractors = <<>> /\ datasets = <<>>
MainIdle ==
    /\ pc = "off" /\ cfg = <<>> /\ trace = <<>> /\ env = <<>>
    /\ calls = <<>> /\ epoch = 0 /\ raised = NoException

(***************************************************************************)
(* Tensor shapes and the transforms of the two pipelines                   *)
(***************************************************************************)
ResizeSize == 256       \* transforms.functional.resize(data, 256)
CropSize   == 224       \* RandomCrop(size=224), CenterCrop(size=224)
Degrees    == 45        \* RandomRotation(degrees=45, ...)
RotateFill == 255       \* RandomRotation(..., fill=255)

StatShape == <<3, 1, 1>>  \* shape of mu and of sigma after [:, None, None]

Tensor(shape, ops) == [status |-> "ok", shape |-> shape, ops |-> ops, err |-> "none"]
Raise(kind)        == [status |-> "error", shape |-> <<>>, ops |-> <<>>, err |-> kind]

\* numpy broadcasting of two 3-d shapes; <<>> when the operands cannot be
\* broadcast together
BroadcastDim(a, b) == IF a = b THEN a ELSE IF a = 1 THEN b ELSE IF b = 1 THEN a ELSE 0
BroadcastLax(s1, s2) == [i \in 1..3 |-> IF s1[i] >= s2[i] THEN s1[i] ELSE s2[i]]
Broadcast(s1, s2) ==
    IF \E i \in 1..3 : BroadcastDim(s1[i], s2[i]) = 0
    THEN <<>>
    ELSE [i \in 1..3 |-> BroadcastDim(s1[i], s2[i])]

\* torchvision's output size for an int size: the smaller edge is matched to
\* size, the other edge is int(size * long / short)
ResizeSquare(h, w, size) == <<size, size>>
ResizeLongEdge(h, w, size) ==
    LET short == IF w <= h THEN w ELSE h
        long  == IF w <= h THEN h ELSE w
        new_short == (size * short) \div long
    IN  IF w <= h THEN <<size, new_short>> ELSE <<new_short, size>>
ResizeOutputSize(h, w, size) ==
    LET short == IF w <= h THEN w ELSE h
        long  == IF w <= h THEN h ELSE w
        new_short == size
        new_long  == (size * long) \div short
    IN  IF w <= h THEN <<new_long, new_short>> ELSE <<new_short, new_long>>

\* ReplaceChannelsByBIOTEMPTransform.__call__ on shapes
ReplaceChannelsByBIOTEMP(t) ==
    LET sub == Broadcast(t.shape, StatShape)                 \* data - mu
        div == IF sub = <<>> THEN <<>> ELSE Broadcast(sub, StatShape)  \* / sigma
    IN  IF div = <<>>
        THEN Raise("ValueError")
        ELSE LET hw == ResizeOutputSize(div[2], div[3], ResizeSize)
             IN  Tensor(<<div[1], hw[1], hw[2]>>,
                        t.ops \o << <<"standardize">>, <<"resize", ResizeSize>> >>)

\* Python's round(): halves go to the even neighbour.  n is the numerator of n/2.
RoundHalf(n) ==
    IF n % 2 = 0 THEN n \div 2
    ELSE IF ((n - 1) \div 2) % 2 = 0 THEN (n - 1) \div 2 ELSE (n + 1) \div 2

\* the uniform draws of the random transforms, sampled
Angles == {0 - Degrees, 0, Degrees}
Offsets(n) == 0..Min(n, MaxOffset)

RandomRotation(t, angle) ==
    Tensor(t.shape, Append(t.ops, <<"rotate", angle, RotateFill>>))

CropTo(t, top, left) ==
    Tensor(<<t.shape[1], CropSize, CropSize>>, Append(t.ops, <<"crop", top, left>>))

RandomCropOffsets(t) ==
    LET h == t.shape[2]
        w == t.shape[3]
    IN  IF h = CropSize /\ w = CropSize THEN {<<0, 0>>}
        ELSE Offsets(h - CropSize) \X Offsets(w - CropSize)

CenterCropRandom(t) ==
    Offsets(t.shape[2] - CropSize) \X Offsets(t.shape[3] - CropSize)
CenterCropOffsets(t) ==
    {<<RoundHalf(t.shape[2] - CropSize), RoundHalf(t.shape[3] - CropSize)>>}

Flip(t, name, do) == IF do THEN Tensor(t.shape, Append(t.ops, <<name>>)) ELSE t

\* transforms.Normalize(mean=[3 values], std=[3 values]): in-place sub_/div_
NormalizeT(t) ==
    IF t.shape[1] # 3 THEN Raise("RuntimeError")
    ELSE Tensor(t.shape, Append(t.ops, <<"normalize">>))

train_transform ==
    <<"ReplaceChannelsByBIOTEMPTransform", "RandomRotation", "RandomCrop",
      "RandomHorizontalFlip", "RandomVerticalFlip", "Normalize">>
test_transform ==
    <<"ReplaceChannelsByBIOTEMPTransform", "CenterCrop", "Normalize">>

Compose == [train |-> train_transform, test |-> test_transform]

InputShapes == (1..MaxChannels) \X (1..MaxDim) \X (1..MaxDim)

\* each pipeline is called twice on the same input, the evaluation one first
Applications == <<"test", "test", "train", "train">>

Running == app \in 1..Len(Applications)
Pipe    == Compose[Applications[app]]

InitPipeline ==
    /\ x \in InputShapes
    /\ app = 1
    /\ stage = 1
    /\ cur = Tensor(x, <<>>)
    /\ outs = <<>>
    /\ PatchIdle /\ DataIdle /\ MainIdle

\* the transform Compose.__call__ is about to apply
At(name) ==
    /\ Running
    /\ cur.status = "ok"
    /\ stage <= Len(Pipe)
    /\ Pipe[stage] = name

Step(t) ==
    /\ cur' = t
    /\ stage' = stage + 1
    /\ UNCHANGED <<x, app, outs, patchVars, dataVars, mainVars>>

ApplyReplaceChannels ==
    /\ At("ReplaceChannelsByBIOTEMPTransform")
    /\ Step(ReplaceChannelsByBIOTEMP(cur))

ApplyRandomRotation ==
    /\ At("RandomRotation")
    /\ \E angle \in Angles : Step(RandomRotation(cur, angle))

ApplyRandomCrop ==
    /\ At("RandomCrop")
    /\ IF cur.shape[2] < CropSize \/ cur.shape[3] < CropSize
       THEN Step(Raise("ValueError"))
       ELSE \E o \in RandomCropOffsets(cur) : Step(CropTo(cur, o[1], o[2]))

ApplyCenterCrop ==
    /\ At("CenterCrop")
    /\ \E o \in CenterCropOffsets(cur) : Step(CropTo(cur, o[1], o[2]))

ApplyRandomHorizontalFlip ==
    /\ At("RandomHorizontalFlip")
    /\ \E do \in BOOLEAN : Step(Flip(cur, "hflip", do))

ApplyRandomVerticalFlip ==
    /\ At("RandomVerticalFlip")
    /\ \E do \in BOOLEAN : Step(Flip(cur, "vflip", do))

ApplyNormalize ==
    /\ At("Normalize")
    /\ Step(NormalizeT(cur))

\* Compose.__call__ returns (or the exception of a transform leaves it) and
\* the next application starts from the same input
ComposeReturn ==
    /\ Running
    /\ cur.status = "error" \/ stage > Len(Pipe)
    /\ outs' = Append(outs, cur)
    /\ app' = app + 1
    /\ stage' = 1
    /\ cur' = IF app < Len(Applications) THEN Tensor(x, <<>>) ELSE NoTensor
    /\ UNCHANGED <<x, patchVars, dataVars, mainVars>>

NextPipeline ==
    \/ ApplyReplaceChannels
    \/ ApplyRandomRotation
    \/ ApplyRandomCrop
    \/ ApplyCenterCrop
    \/ ApplyRandomHorizontalFlip
    \/ ApplyRandomVerticalFlip
    \/ ApplyNormalize
    \/ ComposeReturn

SpecPipeline == InitPipeline /\ [][NextPipeline]_vars

(***************************************************************************)
(* Cell arithmetic of ReplaceChannelsByBIOTEMPTransform                    *)
(*                                                                         *)
(* Cell values are exact rationals <<n, d>> in lowest terms with d > 0.    *)
(* The sampled inputs are small dyadic numbers, for which every float32    *)
(* operation of the round trip is exact.                                   *)
(***************************************************************************)
MaxNum == 3     \* round-trip inputs k/2 for k in -MaxNum..MaxNum
MaxRaw == 2     \* raster cell values 0..MaxRaw (or missing)

Abs(n) == IF n < 0 THEN 0 - n ELSE n
RECURSIVE GCD(_, _)
GCD(a, b) == IF b = 0 THEN a ELSE GCD(b, a % b)
Rat(n, d) ==
    LET g == GCD(Abs(n), Abs(d))
        sgn == IF d < 0 THEN 0 - 1 ELSE 1
    IN  <<(sgn * n) \div g, (sgn * d) \div g>>
R(k) == <<k, 1>>
RatAdd(a, b) == Rat(a[1] * b[2] + b[1] * a[2], a[2] * b[2])
RatSub(a, b) == Rat(a[1] * b[2] - b[1] * a[2], a[2] * b[2])
RatMul(a, b) == Rat(a[1] * b[1], a[2] * b[2])
RatDiv(a, b) == Rat(a[1] * b[2], a[2] * b[1])
NaN == <<0, 0>>

\* per-channel mean and scale, channel 0 of the code being index 1
mu    == <<0 - 12, 1, 1>>
sigma == <<40, 22, 51>>

\* data = (data - mu) / sigma, on the cell v of channel c
StandardizeNoCentre(v, c) == RatDiv(v, R(sigma[c]))
Standardize(v, c) == RatDiv(RatSub(v, R(mu[c])), R(sigma[c]))

(***************************************************************************)
(* GeoLifeCLEF2022DataModule                                               *)
(***************************************************************************)
MaxModules == 2     \* data modules constructed
MaxCalls   == 2     \* get_dataset calls

PatchSize == 20     \* PatchExtractor(..., size=20)

\* paths are sequences of components; Path(p) / "rasters" appends one
PathJoin(path, name) == Append(path, name)

\* malpolon's PatchExtractor: constructor and append(name, nan=...)
PatchExtractor(root_path, size) ==
    [root_path |-> root_path, size |-> size, rasters |-> <<>>]
PatchExtractorAppend(pe, name, nan) ==
    [pe EXCEPT !.rasters = Append(@, [name |-> name, nan |-> nan])]

\* the three append calls of get_dataset, in order
RastersDefaultNan ==
    << [name |-> "bio_1", nan |-> 0],
       [name |-> "bio_2", nan |-> 0],
       [name |-> "bio_7", nan |-> 0] >>
RastersReordered ==
    << [name |-> "bio_2", nan |-> 1],
       [name |-> "bio_1", nan |-> 0 - 12],
       [name |-> "bio_7", nan |-> 1] >>
Rasters ==
    << [name |-> "bio_1", nan |-> 0 - 12],
       [name |-> "bio_2", nan |-> 1],
       [name |-> "bio_7", nan |-> 1] >>

RECURSIVE AppendAll(_, _)
AppendAll(pe, rs) ==
    IF rs = <<>> THEN pe
    ELSE AppendAll(PatchExtractorAppend(pe, Head(rs).name, Head(rs).nan), Tail(rs))

\* lines 87-90 of get_dataset: the extractor it builds for self.dataset_path
GetDatasetExtractor(dataset_path) ==
    AppendAll(PatchExtractor(PathJoin(dataset_path, "rasters"), PatchSize), Rasters)

DatasetClsSwapped(minigeolifeclef) ==
    IF minigeolifeclef THEN "GeoLifeCLEF2022Dataset" ELSE "MiniGeoLifeCLEF2022Dataset"
DatasetCls(minigeolifeclef) ==
    IF minigeolifeclef THEN "MiniGeoLifeCLEF2022Dataset" ELSE "GeoLifeCLEF2022Dataset"

DatasetPaths == { <<"data">>, <<"mnt", "glc">> }
Splits       == {"train", "test"}
Transforms   == {"train_transform", "test_transform"}
Kwargs       == { {}, {<<"region", "fr">>} }

InitData ==
    /\ modules = <<>>
    /\ extractors = <<>>
    /\ datasets = <<>>
    /\ PipeIdle /\ PatchIdle /\ MainIdle

\* GeoLifeCLEF2022DataModule.__init__ with the default batch sizes and workers
DataModuleInit ==
    /\ Len(modules) < MaxModules
    /\ \E dataset_path \in DatasetPaths, minigeolifeclef \in BOOLEAN :
          modules' = Append(modules,
                        [train_batch_size |-> 32,
                         inference_batch_size |-> 256,
                         num_workers |-> 8,
                         dataset_path |-> dataset_path,
                         minigeolifeclef |-> minigeolifeclef])
    /\ UNCHANGED <<extractors, datasets, pipeVars, patchVars, mainVars>>

\* GeoLifeCLEF2022DataModule.get_dataset(split, transform, **kwargs) on
\* module m; the dataset constructor call is recorded with its arguments
GetDataset ==
    /\ Len(datasets) < MaxCalls
    /\ \E m \in DOMAIN modules, split \in Splits,
          transform \in Transforms, kwargs \in Kwargs :
          LET self == modules[m]
              dataset_cls == DatasetCls(self.minigeolifeclef)
              patch_extractor == GetDatasetExtractor(self.dataset_path)
          IN  /\ extractors' = Append(extractors, patch_extractor)
              /\ datasets' = Append(datasets,
                      [cls |-> dataset_cls,
                       caller |-> m,
                       dataset_path |-> self.dataset_path,
                       split |-> split,
                       patch_data |-> <<>>,
                       use_rasters |-> TRUE,
                       patch_extractor |-> Len(extractors) + 1,
                       transform |-> transform,
                       kwargs |-> kwargs])
    /\ UNCHANGED <<modules, pipeVars, patchVars, mainVars>>

NextData ==
    \/ DataModuleInit
    \/ GetDataset

SpecData == InitData /\ [][NextData]_vars

(***************************************************************************)
(* One raster location through extraction and the transform                *)
(***************************************************************************)
Channels == 1..3

RoundTripInputs == { Rat(k, 2) : k \in (0 - MaxNum)..MaxNum }
RasterCells     == { R(k) : k \in 0..MaxRaw } \cup {NaN}

\* the map x -> x * sigma + mu of the round-trip property, with its own
\* statement of the two vectors
RoundTripMu    == <<0 - 12, 1, 1>>
RoundTripSigma == <<40, 22, 51>>
Denormalize(v, c) == RatAdd(RatMul(v, R(RoundTripSigma[c])), R(RoundTripMu[c]))

\* the extractor substitutes the raster's nan value for a missing cell
Fill(pe, v, c) == IF v = NaN THEN R(pe.rasters[c].nan) ELSE v

InitPatch ==
    /\ \/ /\ mode = "roundtrip"
          /\ phase = "patch"
          /\ orig \in [Channels -> RoundTripInputs]
          /\ raw = <<>>
          /\ patch = [c \in Channels |-> Denormalize(orig[c], c)]
       \/ /\ mode = "extract"
          /\ phase = "raw"
          /\ orig = <<>>
          /\ raw \in [Channels -> RasterCells]
          /\ patch = <<>>
    /\ normed = <<>>
    /\ PipeIdle /\ DataIdle /\ MainIdle

\* the patch extractor built by get_dataset reads the three rasters
ExtractPatch ==
    /\ mode = "extract" /\ phase = "raw"
    /\ \E dataset_path \in DatasetPaths :
          patch' = [c \in Channels |-> Fill(GetDatasetExtractor(dataset_path), raw[c], c)]
    /\ phase' = "patch"
    /\ UNCHANGED <<mode, orig, raw, normed, pipeVars, dataVars, mainVars>>

\* line 24 of ReplaceChannelsByBIOTEMPTransform.__call__ on the cell values
ApplyStandardize ==
    /\ phase = "patch"
    /\ normed' = [c \in Channels |-> Standardize(patch[c], c)]
    /\ phase' = "normed"
    /\ UNCHANGED <<mode, orig, raw, patch, pipeVars, dataVars, mainVars>>

NextPatch ==
    \/ ExtractPatch
    \/ ApplyStandardize

SpecPatch == InitPatch /\ [][NextPatch]_vars

(***************************************************************************)
(* main                                                                    *)
(***************************************************************************)
MaxEpochs == 2      \* cfg.trainer.max_epochs in 1..MaxEpochs

\* the statements of main, in program order
ProgramTestBeforeFit ==
    <<"logger", "log_hyperparams", "datamodule", "model", "callbacks",
      "trainer", "test", "fit">>
Program ==
    <<"logger", "log_hyperparams", "datamodule", "model", "callbacks",
      "trainer", "fit", "test">>

Index(stmt) == CHOOSE k \in 1..Len(Program) : Program[k] = stmt
\* the statement control reaches when stmt completes normally
After(stmt) ==
    IF Index(stmt) < Len(Program) THEN Program[Index(stmt) + 1] ELSE "done"

\* where control goes when stmt raises: main has no try statement, so the
\* exception leaves main
HandlerResumeAfterFit(stmt) == IF stmt = "fit" THEN After(stmt) ELSE "raised"
Handler(stmt) == "raised"

\* failures the libraries may raise at any statement
Exceptions == {"RuntimeError", "FileNotFoundError"}
\* reading a section the configuration does not have
ConfigError == "ConfigAttributeError"

Missing == [present |-> FALSE, dataset_path |-> <<>>, minigeolifeclef |-> FALSE,
            max_epochs |-> 0]
Section(dataset_path, minigeolifeclef, max_epochs) ==
    [present |-> TRUE, dataset_path |-> dataset_path,
     minigeolifeclef |-> minigeolifeclef, max_epochs |-> max_epochs]

Configs ==
    [data    : {Missing} \cup {Section(<<"data">>, b, 0) : b \in BOOLEAN},
     model   : {Missing, Section(<<>>, FALSE, 0)},
     trainer : {Missing} \cup {Section(<<>>, FALSE, n) : n \in 1..MaxEpochs}]

NoObject == 0
InitMain ==
    /\ pc = Program[1]
    /\ cfg \in Configs
    /\ trace = <<>>
    /\ env = [logger |-> NoObject, datamodule |-> NoObject, model |-> NoObject,
              callbacks |-> NoObject, trainer |-> NoObject, objects |-> 0]
    /\ calls = <<>>
    /\ epoch = 0
    /\ raised = NoException
    /\ PipeIdle /\ PatchIdle /\ DataIdle

\* stmt completes normally
Complete(stmt) ==
    /\ pc' = After(stmt)
    /\ trace' = Append(trace, <<"done", stmt>>)
    /\ raised' = raised

\* stmt raises e
Throw(stmt, e) ==
    /\ pc' = Handler(stmt)
    /\ trace' = Append(trace, <<"raise", stmt, e>>)
    /\ raised' = IF Handler(stmt) = "raised" THEN e ELSE raised
    /\ UNCHANGED <<env, calls, epoch>>

\* stmt either constructs a new object bound to the local variable, or raises
Construct(stmt, variable, sections) ==
    /\ IF \E sec \in sections : ~cfg[sec].present
       THEN Throw(stmt, ConfigError)
       ELSE \/ /\ Complete(stmt)
               /\ env' = [env EXCEPT ![variable] = env.objects + 1,
                                      !.objects = env.objects + 1]
               /\ UNCHANGED <<calls, epoch>>
            \/ \E e \in Exceptions : Throw(stmt, e)
    /\ UNCHANGED <<cfg, pipeVars, patchVars, dataVars>>

\* logger = pl.loggers.CSVLogger(".", name=False, version="")
CreateLogger ==
    /\ pc = "logger"
    /\ Construct("logger", "logger", {})

\* logger.log_hyperparams(cfg)
LogHyperparams ==
    /\ pc = "log_hyperparams"
    /\ \/ Complete("log_hyperparams") /\ UNCHANGED <<env, calls, epoch>>
       \/ \E e \in Exceptions : Throw("log_hyperparams", e)
    /\ UNCHANGED <<cfg, pipeVars, patchVars, dataVars>>

\* datamodule = GeoLifeCLEF2022DataModule.from_argparse_args(Namespace(**cfg.data))
CreateDataModule ==
    /\ pc = "datamodule"
    /\ Construct("datamodule", "datamodule", {"data"})

\* model = ClassificationSystem.from_argparse_args(Namespace(**cfg.model))
CreateModel ==
    /\ pc = "model"
    /\ Construct("model", "model", {"model"})

\* callbacks = [ModelSummary(max_depth=3), ModelCheckpoint(...)]
CreateCallbacks ==
    /\ pc = "callbacks"
    /\ Construct("callbacks", "callbacks", {})

\* trainer = pl.Trainer(logger=logger, callbacks=callbacks, **cfg.trainer)
CreateTrainer ==
    /\ pc = "trainer"
    /\ Construct("trainer", "trainer", {"trainer"})

\* entering trainer.fit(model, datamodule=datamodule) / trainer.test(...)
Call(method) ==
    /\ trace # <<>> => Last(trace) # <<"call", method>>
    /\ trace' = Append(trace, <<"call", method>>)
    /\ calls' = Append(calls, [method |-> method, trainer |-> env.trainer,
                               model |-> env.model, datamodule |-> env.datamodule])
    /\ UNCHANGED <<pc, cfg, env, epoch, raised, pipeVars, patchVars, dataVars>>

InCall(method) == pc = method /\ trace # <<>> /\ Last(trace) = <<"call", method>>

FitCall ==
    /\ pc = "fit"
    /\ Call("fit")

\* one training epoch inside trainer.fit
FitEpoch ==
    /\ InCall("fit")
    /\ epoch < cfg.trainer.max_epochs
    /\ epoch' = epoch + 1
    /\ UNCHANGED <<pc, cfg, trace, env, calls, raised, pipeVars, patchVars, dataVars>>

FitReturn ==
    /\ InCall("fit")
    /\ \/ /\ epoch = cfg.trainer.max_epochs
          /\ Complete("fit")
          /\ UNCHANGED <<env, calls, epoch>>
       \/ \E e \in Exceptions : Throw("fit", e)
    /\ UNCHANGED <<cfg, pipeVars, patchVars, dataVars>>

TestCall ==
    /\ pc = "test"
    /\ Call("test")

TestReturn ==
    /\ InCall("test")
    /\ \/ Complete("test") /\ UNCHANGED <<env, calls, epoch>>
       \/ \E e \in Exceptions : Throw("test", e)
    /\ UNCHANGED <<cfg, pipeVars, patchVars, dataVars>>

NextMain ==
    \/ CreateLogger
    \/ LogHyperparams
    \/ CreateDataModule
    \/ CreateModel
    \/ CreateCallbacks
    \/ CreateTrainer
    \/ FitCall
    \/ FitEpoch
    \/ FitReturn
    \/ TestCall
    \/ TestReturn

SpecMain == InitMain /\ [][NextMain]_vars

(***************************************************************************)
(* Properties of the transforms                                            *)
(***************************************************************************)
\* ReplaceChannelsByBIOTEMPTransform has just returned normally
Replaced == Running /\ stage = 2 /\ cur.status = "ok"
\* ReplaceChannelsByBIOTEMPTransform has just raised
ReplaceRaised == Running /\ stage = 2 /\ cur.status = "error"

C3_NoErrorForAnyChannelCount ==
    (Running /\ stage = 2 /\ x[1] # 3) => cur.status = "ok"

\* C3 amended: a 1-channel input raises nothing and silently comes out with 3
\* channels; any other channel count different from 3 (2, 4) makes the
\* subtraction raise a broadcasting ValueError.
C3_OnlyOneChannelBroadcasts ==
    (Running /\ stage = 2) =>
        /\ x[1] = 1 => (cur.status = "ok" /\ cur.shape[1] = 3)
        /\ x[1] \notin {1, 3} => (cur.status = "error" /\ cur.err = "ValueError")

C3_Witness ==
    Replaced /\ x[1] = 1 /\ cur.shape[1] = 3

\* C4: all applications of test_transform to one input return the same
\* value, and two applications of train_transform differ only through the
\* rotation, crop and flip draws (the witness is an input on which they do).
IsRandomOp(op) == op[1] \in {"rotate", "crop", "hflip", "vflip"}
OutsOf(name) == {i \in 1..Len(outs) : Applications[i] = name}
C4_TestDeterministicTrainStochastic ==
    /\ \A i, j \in OutsOf("test") : outs[i] = outs[j]
    /\ \A i, j \in OutsOf("train") :
          /\ outs[i].status = outs[j].status
          /\ outs[i].shape = outs[j].shape
          /\ SelectSeq(outs[i].ops, LAMBDA op : ~IsRandomOp(op))
               = SelectSeq(outs[j].ops, LAMBDA op : ~IsRandomOp(op))

C4_Witness ==
    /\ Len(outs) = 4 /\ x[1] = 3
    /\ outs[1].status = "ok" /\ outs[1] = outs[2]
    /\ outs[3].status = "ok" /\ outs[4].status = "ok" /\ outs[3] # outs[4]

\* C9: for a 3-channel input with H >= 1 and W >= 1 the resize step yields
\* height and width of at least 256, every crop window lies inside the image
\* (no padding, no failure), and both pipelines return a 3 x 224 x 224 value.
CropInside(op) == op[1] = "crop" => (op[2] >= 0 /\ op[3] >= 0)
C9_OutputIs3x224x224 ==
    x[1] = 3 =>
        /\ Replaced => (cur.shape[2] >= 256 /\ cur.shape[3] >= 256)
        /\ Running => cur.status = "ok"
        /\ Running => \A k \in 1..Len(cur.ops) : CropInside(cur.ops[k])
        /\ \A i \in 1..Len(outs) :
              outs[i].status = "ok" /\ outs[i].shape = <<3, 224, 224>>

C9_Witness ==
    /\ x = <<3, 1, 3>> /\ Len(outs) = 4
    /\ \A i \in 1..4 : outs[i].shape = <<3, 224, 224>>

(***************************************************************************)
(* Properties of the data module                                           *)
(***************************************************************************)
\* the constructor arguments of a recorded call, without the class
Arguments(d) ==
    <<d.dataset_path, d.split, d.patch_data, d.use_rasters,
      extractors[d.patch_extractor], d.transform, d.kwargs>>

\* C1: get_dataset constructs MiniGeoLifeCLEF2022Dataset when minigeolifeclef
\* is true and GeoLifeCLEF2022Dataset when it is false, and for equal
\* dataset_path, split, transform and kwargs the constructor arguments
\* (dataset_path, split, patch_data=[], use_rasters=True, the patch extractor
\* configuration, transform, kwargs) are the same whatever the flag.
C1_FlagSelectsClassOnly ==
    /\ \A i \in DOMAIN datasets :
          LET d == datasets[i]
              self == modules[d.caller]
          IN  /\ self.minigeolifeclef => d.cls = "MiniGeoLifeCLEF2022Dataset"
              /\ ~self.minigeolifeclef => d.cls = "GeoLifeCLEF2022Dataset"
              /\ d.dataset_path = self.dataset_path
              /\ d.patch_data = <<>>
              /\ d.use_rasters = TRUE
    /\ \A i, j \in DOMAIN datasets :
          LET d == datasets[i]
              e == datasets[j]
          IN  ( /\ modules[d.caller].dataset_path = modules[e.caller].dataset_path
                /\ d.split = e.split
                /\ d.transform = e.transform
                /\ d.kwargs = e.kwargs )
              => Arguments(d) = Arguments(e)

C1_Witness ==
    /\ Len(datasets) = 2
    /\ datasets[1].cls = "MiniGeoLifeCLEF2022Dataset"
    /\ datasets[2].cls = "GeoLifeCLEF2022Dataset"
    /\ datasets[1].caller # datasets[2].caller
    /\ datasets[1].kwargs # {}
    /\ Arguments(datasets[1]) = Arguments(datasets[2])

\* C7: after any sequence of get_dataset calls every call has built its own
\* patch extractor rooted at <dataset_path>/rasters with patch size 20 holding
\* exactly bio_1, bio_2, bio_7 in that order with fill values -12.0, 1.0,
\* 1.0; rasters never accumulate from one call to the next, and the module's
\* dataset_path and minigeolifeclef fields are unchanged.
C7_ExtractorsWellFormed ==
    /\ Len(extractors) = Len(datasets)
    /\ \A i \in DOMAIN datasets :
          LET d == datasets[i]
              pe == extractors[d.patch_extractor]
          IN  /\ d.patch_extractor = i
              /\ pe.root_path = modules[d.caller].dataset_path \o <<"rasters">>
              /\ pe.size = 20
              /\ Len(pe.rasters) = 3
              /\ pe.rasters[1] = [name |-> "bio_1", nan |-> 0 - 12]
              /\ pe.rasters[2] = [name |-> "bio_2", nan |-> 1]
              /\ pe.rasters[3] = [name |-> "bio_7", nan |-> 1]
C7_FieldsKept ==
    /\ \A m \in DOMAIN modules : m \in DOMAIN modules' /\ modules'[m] = modules[m]
    /\ \A k \in DOMAIN extractors :
          k \in DOMAIN extractors' /\ extractors'[k] = extractors[k]
C7_OwnExtractorPerCall == [](C7_ExtractorsWellFormed) /\ [][C7_FieldsKept]_vars

C7_Witness ==
    /\ Len(datasets) = 2
    /\ datasets[1].caller = datasets[2].caller
    /\ datasets[1].split # datasets[2].split
    /\ datasets[1].patch_extractor # datasets[2].patch_extractor
    /\ Len(extractors[2].rasters) = 3

(***************************************************************************)
(* Properties of the cell arithmetic                                       *)
(***************************************************************************)
\* C8: on every 3-channel input the subtract-mean-and-divide-by-scale step
\* (mu = [-12, 1, 1], sigma = [40, 22, 51], per channel) undoes
\* x -> x * sigma + mu: every element comes back equal to x.
C8_StandardizeInvertsDenormalize ==
    (mode = "roundtrip" /\ phase = "normed") =>
        \A c \in Channels : normed[c] = orig[c]

C8_Witness ==
    /\ mode = "roundtrip" /\ phase = "normed"
    /\ orig = <<Rat(3, 2), Rat(0 - 1, 2), R(1)>>
    /\ patch = <<R(48), R(0 - 10), R(52)>>
    /\ normed = orig

\* C10: for each channel the fill value registered by get_dataset equals the
\* mean subtracted from that channel, so every cell that was filled for
\* missing data is exactly 0 after the subtract-and-divide step.
C10_FilledCellsBecomeZero ==
    /\ \A dataset_path \in DatasetPaths : \A c \in Channels :
          GetDatasetExtractor(dataset_path).rasters[c].nan = mu[c]
    /\ (mode = "extract" /\ phase = "normed") =>
          \A c \in Channels : raw[c] = NaN => normed[c] = R(0)

C10_Witness ==
    /\ mode = "extract" /\ phase = "normed"
    /\ raw = <<NaN, R(2), NaN>>
    /\ patch = <<R(0 - 12), R(2), R(1)>>
    /\ normed = <<R(0), Rat(1, 22), R(0)>>

(***************************************************************************)
(* Properties of main                                                      *)
(***************************************************************************)
StepOrder ==
    <<"logger", "log_hyperparams", "datamodule", "model", "callbacks",
      "trainer", "fit", "test">>
Completed == SelectSeq(trace, LAMBDA ev : ev[1] = "done")
Position(ev) == CHOOSE k \in DOMAIN trace : trace[k] = ev
Occurrences(ev) == Cardinality({k \in DOMAIN trace : trace[k] = ev})

\* C5: in every run of main the steps happen once each and in the order
\* logger creation, hyper-parameter logging, data module, model, callbacks,
\* trainer, trainer.fit, trainer.test (a run that ends normally has done all
\* of them); trainer.test is entered only after trainer.fit has returned, and
\* both receive the same model and the same data module.
C5_StepsOnceInOrder ==
    /\ Len(Completed) <= Len(StepOrder)
    /\ \A k \in DOMAIN Completed : Completed[k] = <<"done", StepOrder[k]>>
    /\ \A k \in DOMAIN StepOrder :
          /\ Occurrences(<<"done", StepOrder[k]>>) <= 1
          /\ Occurrences(<<"call", StepOrder[k]>>) <= 1
    /\ pc = "done" => Len(Completed) = Len(StepOrder)
    /\ Len(calls) >= 1 =>
          /\ calls[1].method = "fit"
          /\ Occurrences(<<"done", "trainer">>) = 1
          /\ Position(<<"done", "trainer">>) < Position(<<"call", "fit">>)
          /\ calls[1].model = env.model /\ env.model # NoObject
          /\ calls[1].datamodule = env.datamodule /\ env.datamodule # NoObject
          /\ calls[1].trainer = env.trainer /\ env.trainer # NoObject
          /\ Cardinality({env.logger, env.datamodule, env.model,
                          env.callbacks, env.trainer}) = 5
    /\ Len(calls) >= 2 =>
          /\ Len(calls) = 2
          /\ calls[2].method = "test"
          /\ Occurrences(<<"done", "fit">>) = 1
          /\ Position(<<"done", "fit">>) < Position(<<"call", "test">>)
          /\ calls[2].model = calls[1].model
          /\ calls[2].datamodule = calls[1].datamodule
          /\ calls[2].trainer = calls[1].trainer

C5_Witness ==
    /\ pc = "done" /\ raised = NoException
    /\ epoch = 2
    /\ Len(trace) = 10
    /\ Len(calls) = 2 /\ calls[1].model = calls[2].model

\* C6: if any step of main raises, the run terminates with that same failure:
\* no later step is executed (trainer.test never runs after a failed
\* trainer.fit), no step is retried, and the failure is not caught or
\* translated.
C6_Propagated ==
    /\ \A k \in DOMAIN trace :
          trace[k][1] = "raise" =>
              /\ k = Len(trace)
              /\ pc = "raised"
              /\ raised = trace[k][3]
    /\ raised # NoException => (trace # <<>> /\ Last(trace)[1] = "raise")
    /\ pc = "raised" <=> raised # NoException
    /\ pc = "done" => raised = NoException
C6_FailureEndsRun == [](C6_Propagated) /\ [][pc # "raised"]_vars

C6_Witness ==
    /\ pc = "raised" /\ raised = "FileNotFoundError"
    /\ Last(trace) = <<"raise", "fit", "FileNotFoundError">>
    /\ epoch = 1
    /\ Len(calls) = 1 /\ calls[1].method = "fit"

====
